---- MODULE Spec2Model ----
(***************************************************************************)
(* The two probing engines of FuzzerPy:                                    *)
(*   FuzzerPyBugBountyEngine (src/FuzzerPy_BugBounty.py): rate limiter,    *)
(*     retries, consecutive-error circuit breaker;                         *)
(*   FuzzerPyEngine (src/Fuzzerpy.py): semaphore, retries.                 *)
(* Both run on one asyncio event loop: a task's code between two awaits is *)
(* one atomic step; tasks created before gather() run their first step in  *)
(* creation order before any I/O completion is handled.                    *)
(* Spec is the general model; SpecTimeouts, SpecClassify, SpecExpand and   *)
(* SpecLimiter run the same code on particular inputs, the last with the   *)
(* rate limiter's clock; SpecOutput is Spec with the output file option;   *)
(* SpecLive is Spec with its scheduling, SpecUninterrupted the same        *)
(* without interruptions.                                                  *)
(***************************************************************************)
EXTENDS Integers, Sequences, FiniteSets, TLC

VARIABLES
    engine,          \* which engine this run is: "bugbounty" or "standard"
    wordlist_data,   \* self.wordlist_data, in file order
    extensions,      \* self.extensions, in the order given on the command line
    npaths,          \* total_reqs: the length final_payloads has once it is built
    stop_on_errors,  \* FuzzerPyBugBountyEngine.stop_on_errors
    threads,         \* FuzzerPyEngine: the semaphore's initial value
    target_valid,    \* FALSE: the target has no host, session.get raises InvalidURL at once
    output_file,     \* self.output_file: "none", or a path that open() can or cannot
                     \* open for appending: "writable", "unwritable"
    run_pc,          \* position of run(): "create", "gather", "summary"; or where
                     \* __main__ ended after an interruption: "interrupted",
                     \* "main_summary"
    final_payloads,  \* run()'s local list of request paths
    pc,              \* position of each scan_url task
    attempt,         \* the retry loop's variable of each task
    should_stop,     \* self.should_stop
    stats,           \* self.stats
    found_urls,      \* self.found_urls (a payload's index stands for its url)
    saved,           \* the lines this run has appended to the output file (a
                     \* payload's index stands for its line)
    progress,        \* number of pbar.update(1) calls
    warnings,        \* number of times the circuit breaker's warning was printed
    lock,            \* RateLimiter.lock: the task holding it, 0 when free
    lock_waiters,    \* tasks waiting for RateLimiter.lock, in arrival order
    request_count,   \* RateLimiter.request_count
    sem,             \* FuzzerPyEngine.semaphore: free slots
    sem_waiters,     \* tasks waiting for the semaphore, in arrival order
    issued,          \* history: number of session.get calls made so far
    ended,           \* history: number of candidates whose scan_url ended in each way
    now,             \* time.time(), in ticks
    last_request_time, \* RateLimiter.last_request_time, in ticks
    wake             \* when the asyncio.sleep of RateLimiter.wait is due, in ticks

cfg == <<engine, wordlist_data, extensions, npaths, stop_on_errors, threads,
         target_valid, output_file>>
limiter == <<lock, lock_waiters, request_count>>
semaphore == <<sem, sem_waiters>>
clock == <<now, last_request_time, wake>>
vars == <<engine, wordlist_data, extensions, npaths, stop_on_errors, threads,
          target_valid, output_file, run_pc, final_payloads, pc, attempt,
          should_stop, stats, found_urls, saved, progress, warnings, lock,
          lock_waiters, request_count, sem, sem_waiters, issued, ended, now,
          last_request_time, wake>>

\* Bounds of the model.
MaxPaths == 3
MaxStopOnErrors == 2
MaxThreads == 2
MinInterval == 2     \* RateLimiter.min_interval, in ticks
MaxTime == 8         \* the clock stops here
MaxWords == 3        \* words of the payload expansion's word lists
MaxExts == 2         \* extensions of its extension lists

\* self.max_retries of the two engines.
BBMaxRetries == 1
StdMaxRetries == 2

Tasks == 1..npaths

\* time.time() when the engine is built: more than min_interval after 0, the
\* initial value of last_request_time.
Epoch == MinInterval

\* What the transport can answer, and how an attempt can fail.
StatusCodes == {200, 403, 301, 307, 404, 500}
Transient == {"timeout", "client_error"}
ErrorKinds == Transient \cup {"exception"}

BBStats0 ==
    [k \in {"total", "200", "403", "302", "404", "errors", "consecutive_errors"} |-> 0]
StdStats0 ==
    [k \in {"total", "200", "403", "302", "errors"} |-> 0]

Inc(s, k) == [s EXCEPT ![k] = @ + 1]

\* The ways a scan_url call can end: in the response block ("response": a Hit,
\* NotFound or any other status), in an except clause after the last attempt
\* ("transient_error"), in the clause for any other exception ("fatal_abort"), or
\* at the should_stop test ("skipped").
Endings == {"response", "transient_error", "fatal_abort", "skipped"}

\* How a retry loop that ends in an except clause is recorded in ended.
ErrorOutcome(kind) == IF kind \in Transient THEN "transient_error" ELSE "fatal_abort"

----------------------------------------------------------------------------
\* run(): the payload expansion. The inner loop appends word.ext for each
\* extension in order; the outer loop appends the word, then runs the inner loop.
RECURSIVE WithExtensions(_, _)
WithExtensions(word, exts) ==
    IF exts = <<>>
    THEN <<>>
    ELSE <<word \o "." \o Head(exts)>> \o WithExtensions(word, Tail(exts))

\* An expansion that puts the bare word after its extensions.
RECURSIVE ExpandBareWordLast(_, _)
ExpandBareWordLast(words, exts) ==
    IF words = <<>>
    THEN <<>>
    ELSE WithExtensions(Head(words), exts) \o <<Head(words)>>
            \o ExpandBareWordLast(Tail(words), exts)

RECURSIVE Expand(_, _)
Expand(words, exts) ==
    IF words = <<>>
    THEN <<>>
    ELSE <<Head(words)>> \o WithExtensions(Head(words), exts)
            \o Expand(Tail(words), exts)

----------------------------------------------------------------------------
\* State after the engine's construction, before run().
InitRun ==
    /\ run_pc = "create"
    /\ final_payloads = <<>>
    /\ pc = [t \in Tasks |-> "none"]
    /\ attempt = [t \in Tasks |-> 0]
    /\ should_stop = FALSE
    /\ found_urls = <<>>
    /\ saved = <<>>
    /\ progress = 0
    /\ warnings = 0
    /\ lock = 0
    /\ lock_waiters = <<>>
    /\ request_count = 0
    /\ sem_waiters = <<>>
    /\ issued = 0
    /\ ended = [k \in Endings |-> 0]
    /\ now = Epoch
    /\ last_request_time = 0
    /\ wake = 0

\* The word lists of the general model: up to MaxPaths words and no extension.
InitWords ==
    /\ npaths \in 0..MaxPaths
    /\ wordlist_data = [i \in 1..npaths |-> "w"]
    /\ extensions = <<>>
    /\ target_valid \in BOOLEAN
    /\ InitRun

\* The general model runs without an output file, the default of both engines.
InitCommon ==
    /\ output_file = "none"
    /\ InitWords

InitBB ==
    /\ engine = "bugbounty"
    /\ stop_on_errors \in 1..MaxStopOnErrors
    /\ threads = 0
    /\ sem = 0
    /\ stats = BBStats0
    /\ InitCommon

InitStd ==
    /\ engine = "standard"
    /\ stop_on_errors = 0
    /\ threads \in 1..MaxThreads
    /\ sem = threads
    /\ stats = StdStats0
    /\ InitCommon

Init == InitBB \/ InitStd

----------------------------------------------------------------------------
\* run() up to its first await: the payload expansion, then the task-creation
\* loop. It holds no await, so it is one step; the loop's break on should_stop
\* is taken by every iteration or by none.
CreateTasks ==
    /\ run_pc = "create"
    /\ final_payloads' = Expand(wordlist_data, extensions)
    /\ pc' = [t \in Tasks |->
                IF engine = "bugbounty" /\ should_stop THEN "none" ELSE "created"]
    /\ run_pc' = "gather"
    /\ UNCHANGED <<cfg, clock, attempt, should_stop, stats, found_urls, saved,
                   progress, warnings, limiter, semaphore, issued, ended>>

\* run() of the bug-bounty engine: except KeyboardInterrupt. The handler is
\* reached when the interrupt is raised in run()'s own code inside the try block,
\* that is in the task-creation loop, after k tasks were created: run() sets
\* should_stop and goes on to print_summary without having awaited them. (An
\* interpreter that turns the signal into a cancellation of run() never reaches
\* the handler: that is Interrupt.)
KeyboardInterrupt ==
    /\ engine = "bugbounty"
    /\ run_pc = "create"
    /\ final_payloads' = Expand(wordlist_data, extensions)
    /\ \E k \in 0..npaths :
          pc' = [t \in Tasks |-> IF t <= k THEN "created" ELSE "none"]
    /\ should_stop' = TRUE
    /\ run_pc' = "summary"
    /\ UNCHANGED <<cfg, clock, attempt, stats, found_urls, saved, progress,
                   warnings, limiter, semaphore, issued, ended>>

\* An interactive interruption that run() does not handle: it arrives while run()
\* is suspended in gather (or before its try block), asyncio.run cancels what is
\* left of the probe tasks and raises KeyboardInterrupt in __main__. The handler
\* of the bug-bounty script prints a message only; the handler of the standard
\* script calls print_summary(0, 0).
Interrupt ==
    /\ run_pc \in {"create", "gather"}
    /\ pc' = [t \in Tasks |-> IF pc[t] \in {"none", "done"} THEN pc[t] ELSE "cancelled"]
    /\ attempt' = [t \in Tasks |-> 0]
    /\ lock' = 0
    /\ lock_waiters' = <<>>
    /\ sem' = threads
    /\ sem_waiters' = <<>>
    /\ run_pc' = IF engine = "bugbounty" THEN "interrupted" ELSE "main_summary"
    /\ UNCHANGED <<cfg, clock, final_payloads, should_stop, stats, found_urls,
                   saved, progress, warnings, request_count, issued, ended>>

\* await asyncio.gather(*tasks) returns once every task is done; then print_summary.
GatherDone ==
    /\ run_pc = "gather"
    /\ \A t \in Tasks : pc[t] \in {"none", "done"}
    /\ run_pc' = "summary"
    /\ UNCHANGED <<cfg, clock, final_payloads, pc, attempt, should_stop, stats,
                   found_urls, saved, progress, warnings, limiter, semaphore,
                   issued, ended>>

\* The event loop runs ready callbacks first in, first out: every task created
\* before gather() runs its first step, in creation order, before a wake-up
\* that a timer or the network causes.
FirstPass == \E t \in Tasks : pc[t] = "created"
IsNext(t) == pc[t] = "created" /\ \A u \in 1..(t - 1) : pc[u] # "created"

----------------------------------------------------------------------------
\* The bug-bounty engine's scan_url.

\* A breaker that follows the counter: should_stop falls back to False when a
\* probe ends with the counter under the threshold.
CircuitBreakerFollowsCounter(s) ==
    s["consecutive_errors"] >= stop_on_errors

\* The circuit breaker's test at the end of scan_url: the new value of should_stop.
CircuitBreaker(s) ==
    IF s["consecutive_errors"] >= stop_on_errors THEN TRUE ELSE should_stop

\* The warning is printed in the same branch, with no test of its own.
WarningsAfter(s) ==
    IF s["consecutive_errors"] >= stop_on_errors THEN warnings + 1 ELSE warnings

\* An except clause of the retry loop: both counters go up, on every failed attempt.
BBCountError(s) == Inc(Inc(s, "errors"), "consecutive_errors")

\* The first lines of the response block: the response is counted and the
\* consecutive-error counter is reset, whatever the status.
BBCountResponse(s) == [Inc(s, "total") EXCEPT !["consecutive_errors"] = 0]

\* The status branches that need no further await (all but 200).
BBBucket(s, status) ==
    CASE status = 403 -> Inc(s, "403")
      [] status \in {301, 302, 307, 308} -> Inc(s, "302")
      [] status = 404 -> Inc(s, "404")
      [] OTHER -> s

BBIsHit(status) == status \in {200, 403, 301, 302, 307, 308}

\* save_file(line): without an output file nothing happens; with one, the file
\* is opened for appending and the line written, and open() raises an OSError
\* when the path cannot be opened (no such directory, no permission).
SaveFile(t) == IF output_file = "writable" THEN Append(saved, t) ELSE saved
SaveFileRaises == output_file = "unwritable"

\* The task leaves the retry loop with stats s: circuit-breaker test, pbar.update(1).
BBLoopExit(t, s, oc, nreq) ==
    /\ stats' = s
    /\ should_stop' = CircuitBreaker(s)
    /\ warnings' = WarningsAfter(s)
    /\ progress' = progress + 1
    /\ pc' = [pc EXCEPT ![t] = "done"]
    /\ attempt' = [attempt EXCEPT ![t] = 0]
    /\ ended' = Inc(ended, oc)
    /\ issued' = issued + nreq

\* The task calls session.get for attempt att and is suspended on it.
BBIssue(t, s, att) ==
    /\ stats' = s
    /\ pc' = [pc EXCEPT ![t] = "get"]
    /\ attempt' = [attempt EXCEPT ![t] = att]
    /\ issued' = issued + 1
    /\ UNCHANGED <<should_stop, warnings, progress, ended>>

\* stats after n failed attempts in a row.
BBFailAll(s, n) ==
    [s EXCEPT !["errors"] = @ + n, !["consecutive_errors"] = @ + n]

\* From the return of rate_limiter.wait() to the first suspension. With a target
\* that has no host every session.get raises InvalidURL (a ClientError) before it
\* suspends, so the whole retry loop and the end of scan_url run in this step.
BBAfterLimiter(t) ==
    IF target_valid
    THEN BBIssue(t, stats, 0)
    ELSE BBLoopExit(t, BBFailAll(stats, BBMaxRetries + 1), "transient_error",
                    BBMaxRetries + 1)

\* RateLimiter.wait() once the lock is held: sleep when the last stamp is less
\* than min_interval ago (never for the first caller, last_request_time being 0),
\* else stamp, count and release.
MaySleep == IF request_count = 0 THEN {FALSE} ELSE BOOLEAN

RateLimiterLocked(t) ==
    \E sleeps \in MaySleep :
        IF sleeps
        THEN /\ lock' = t
             /\ pc' = [pc EXCEPT ![t] = "sleeping"]
             /\ UNCHANGED <<request_count, attempt, should_stop, stats, progress,
                            warnings, issued, ended>>
        ELSE /\ lock' = 0
             /\ request_count' = request_count + 1
             /\ BBAfterLimiter(t)

\* A scan_url that does not look at should_stop.
SkipNever == FALSE

\* The test at the top of scan_url.
SkipProbe == should_stop

\* scan_url's first step: the should_stop test, then rate_limiter.wait().
BBStart(t) ==
    /\ engine = "bugbounty"
    /\ run_pc = "gather"
    /\ IsNext(t)
    /\ IF SkipProbe
       THEN /\ pc' = [pc EXCEPT ![t] = "done"]
            /\ ended' = Inc(ended, "skipped")
            /\ progress' = progress + 1
            /\ UNCHANGED <<limiter, attempt, should_stop, stats, warnings,
                           issued>>
       ELSE IF lock = 0 /\ lock_waiters = <<>>
            THEN /\ RateLimiterLocked(t)
                 /\ UNCHANGED lock_waiters
            ELSE /\ lock_waiters' = Append(lock_waiters, t)
                 /\ pc' = [pc EXCEPT ![t] = "lock_wait"]
                 /\ UNCHANGED <<lock, request_count, attempt, should_stop, stats,
                                progress, warnings, issued, ended>>
    /\ UNCHANGED <<cfg, clock, final_payloads, run_pc, found_urls, saved,
                   semaphore>>

\* The lock was released and this task is the first waiter: it takes the lock.
BBLockAcquired(t) ==
    /\ engine = "bugbounty"
    /\ ~FirstPass
    /\ pc[t] = "lock_wait"
    /\ lock = 0
    /\ lock_waiters # <<>> /\ Head(lock_waiters) = t
    /\ lock_waiters' = Tail(lock_waiters)
    /\ RateLimiterLocked(t)
    /\ UNCHANGED <<cfg, clock, final_payloads, run_pc, found_urls, saved,
                   semaphore>>

\* A rate limiter whose caller goes on to session.get inside "async with
\* self.lock": the lock stays with the task that sends its request.
BBSleepDoneInsideLock(t) ==
    /\ engine = "bugbounty"
    /\ ~FirstPass
    /\ pc[t] = "sleeping"
    /\ lock' = t
    /\ request_count' = request_count + 1
    /\ BBAfterLimiter(t)
    /\ UNCHANGED <<cfg, clock, final_payloads, run_pc, found_urls, saved,
                   semaphore, lock_waiters>>

\* asyncio.sleep(wait_time) returns: stamp, count, release the lock, go on.
BBSleepDone(t) ==
    /\ engine = "bugbounty"
    /\ ~FirstPass
    /\ pc[t] = "sleeping"
    /\ lock' = 0
    /\ request_count' = request_count + 1
    /\ BBAfterLimiter(t)
    /\ UNCHANGED <<cfg, clock, final_payloads, run_pc, found_urls, saved,
                   semaphore, lock_waiters>>

\* A retry loop without its last except clause: an exception that is neither a
\* timeout nor a ClientError leaves scan_url, which ends there.
BBOnErrorUncaught(t, kind) ==
    IF kind \in Transient
    THEN LET s == BBCountError(stats) IN
         IF attempt[t] < BBMaxRetries
         THEN BBIssue(t, s, attempt[t] + 1)
         ELSE BBLoopExit(t, s, "transient_error", 0)
    ELSE /\ pc' = [pc EXCEPT ![t] = "done"]
         /\ attempt' = [attempt EXCEPT ![t] = 0]
         /\ ended' = Inc(ended, "fatal_abort")
         /\ UNCHANGED <<stats, should_stop, warnings, progress, issued>>

\* An except clause of the retry loop: count the error, then retry, or leave the
\* loop (attempts exhausted, or an exception that is neither a timeout nor a
\* ClientError).
BBOnError(t, kind) ==
    LET s == BBCountError(stats) IN
    IF kind \in Transient /\ attempt[t] < BBMaxRetries
    THEN BBIssue(t, s, attempt[t] + 1)
    ELSE BBLoopExit(t, s, ErrorOutcome(kind), 0)

\* A hit branch after its bucket increment, s being the stats so far: the url
\* is appended, save_file is called, and the loop is left. An OSError of
\* save_file is raised inside the try block: "except Exception" counts it.
BBRecordHit(t, s) ==
    /\ found_urls' = Append(found_urls, t)
    /\ saved' = SaveFile(t)
    /\ IF SaveFileRaises
       THEN BBLoopExit(t, BBCountError(s), "fatal_abort", 0)
       ELSE BBLoopExit(t, s, "response", 0)

\* session.get returned a response with this status.
BBGetResponse(t, status) ==
    /\ engine = "bugbounty"
    /\ ~FirstPass
    /\ pc[t] = "get"
    /\ LET s == BBCountResponse(stats) IN
       IF status = 200
       THEN \* await response.read()
            /\ stats' = s
            /\ pc' = [pc EXCEPT ![t] = "read"]
            /\ UNCHANGED <<found_urls, saved, attempt, should_stop, warnings,
                           progress, issued, ended>>
       ELSE IF BBIsHit(status)
            THEN BBRecordHit(t, BBBucket(s, status))
            ELSE /\ BBLoopExit(t, BBBucket(s, status), "response", 0)
                 /\ UNCHANGED <<found_urls, saved>>
    /\ UNCHANGED <<cfg, clock, final_payloads, run_pc, limiter, semaphore>>

\* session.get raised.
BBGetError(t, kind) ==
    /\ engine = "bugbounty"
    /\ ~FirstPass
    /\ pc[t] = "get"
    /\ BBOnError(t, kind)
    /\ UNCHANGED <<cfg, clock, final_payloads, run_pc, found_urls, saved,
                   limiter, semaphore>>

\* response.read() returned the body of a 200 response.
BBReadDone(t) ==
    /\ engine = "bugbounty"
    /\ pc[t] = "read"
    /\ BBRecordHit(t, Inc(stats, "200"))
    /\ UNCHANGED <<cfg, clock, final_payloads, run_pc, limiter, semaphore>>

\* response.read() raised: the same except clauses catch it.
BBReadError(t, kind) ==
    /\ engine = "bugbounty"
    /\ pc[t] = "read"
    /\ BBOnError(t, kind)
    /\ UNCHANGED <<cfg, clock, final_payloads, run_pc, found_urls, saved,
                   limiter, semaphore>>

----------------------------------------------------------------------------
\* The standard engine's scan_url.

\* A hit test that takes the temporary redirects 307 and 308 too, which no
\* branch of the standard engine counts.
StdIsHitAnyRedirect(status) == status \in {200, 403, 301, 302, 307, 308}

\* msg is non-empty: one of the three status branches was taken.
StdIsHit(status) == status \in {200, 403, 301, 302}

\* The response block: total, then the status bucket (msg stays "" otherwise).
StdBucket(s, status) ==
    CASE status = 200 -> Inc(s, "200")
      [] status = 403 -> Inc(s, "403")
      [] status \in {301, 302} -> Inc(s, "302")
      [] OTHER -> s

\* The task leaves the retry loop with stats s: pbar.update(1), then the
\* semaphore's slot is released by the caller of this operator.
StdLoopExit(t, s, oc, nreq) ==
    /\ stats' = s
    /\ progress' = progress + 1
    /\ pc' = [pc EXCEPT ![t] = "done"]
    /\ attempt' = [attempt EXCEPT ![t] = 0]
    /\ ended' = Inc(ended, oc)
    /\ issued' = issued + nreq

StdIssue(t, s, att) ==
    /\ stats' = s
    /\ pc' = [pc EXCEPT ![t] = "get"]
    /\ attempt' = [attempt EXCEPT ![t] = att]
    /\ issued' = issued + 1
    /\ UNCHANGED <<progress, ended>>

\* Inside "async with self.semaphore", up to the first suspension. With a target
\* that has no host every attempt raises InvalidURL at once: the loop runs to its
\* last attempt, which alone counts the error, and the slot is released.
StdEnter(t) ==
    IF target_valid
    THEN /\ sem' = sem - 1
         /\ StdIssue(t, stats, 0)
    ELSE /\ sem' = sem
         /\ StdLoopExit(t, Inc(stats, "errors"), "transient_error", StdMaxRetries + 1)

\* A semaphore that lets every caller in.
SemaphoreAlwaysFree == TRUE

\* Semaphore.acquire returns at once: a slot is free and no caller is queued.
SemaphoreFree == sem > 0 /\ sem_waiters = <<>>

\* scan_url's first step: acquire the semaphore, or wait for it.
StdStart(t) ==
    /\ engine = "standard"
    /\ run_pc = "gather"
    /\ IsNext(t)
    /\ IF SemaphoreFree
       THEN /\ StdEnter(t)
            /\ UNCHANGED sem_waiters
       ELSE /\ sem_waiters' = Append(sem_waiters, t)
            /\ pc' = [pc EXCEPT ![t] = "sem_wait"]
            /\ UNCHANGED <<sem, attempt, stats, progress, issued, ended>>
    /\ UNCHANGED <<cfg, clock, final_payloads, run_pc, should_stop, found_urls,
                   saved, warnings, limiter>>

\* A slot was released and this task is the first waiter.
StdSemAcquired(t) ==
    /\ engine = "standard"
    /\ ~FirstPass
    /\ pc[t] = "sem_wait"
    /\ sem > 0
    /\ sem_waiters # <<>> /\ Head(sem_waiters) = t
    /\ sem_waiters' = Tail(sem_waiters)
    /\ StdEnter(t)
    /\ UNCHANGED <<cfg, clock, final_payloads, run_pc, should_stop, found_urls,
                   saved, warnings, limiter>>

\* session.get returned a response with this status.
StdGetResponse(t, status) ==
    /\ engine = "standard"
    /\ ~FirstPass
    /\ pc[t] = "get"
    /\ LET s == StdBucket(Inc(stats, "total"), status) IN
       IF StdIsHit(status)
       THEN \* msg is set: append the url, log_result, save_file; an OSError of
            \* save_file is caught by "except Exception", which breaks
            /\ found_urls' = Append(found_urls, t)
            /\ saved' = SaveFile(t)
            /\ StdLoopExit(t, s, IF SaveFileRaises THEN "fatal_abort" ELSE "response",
                           0)
       ELSE /\ StdLoopExit(t, s, "response", 0)
            /\ UNCHANGED <<found_urls, saved>>
    /\ sem' = sem + 1
    /\ UNCHANGED <<cfg, clock, final_payloads, run_pc, should_stop, warnings,
                   limiter, sem_waiters>>

\* A scan_url that acquires and releases the semaphore by hand and skips the
\* release when an exception that is neither a ClientError nor a timeout breaks
\* the loop.
StdGetErrorKeepsSlot(t, kind) ==
    /\ engine = "standard"
    /\ ~FirstPass
    /\ pc[t] = "get"
    /\ IF kind \in Transient /\ attempt[t] < StdMaxRetries
       THEN /\ StdIssue(t, stats, attempt[t] + 1)
            /\ UNCHANGED sem
       ELSE /\ StdLoopExit(t, IF kind \in Transient THEN Inc(stats, "errors") ELSE stats,
                           ErrorOutcome(kind), 0)
            /\ sem' = IF kind \in Transient THEN sem + 1 ELSE sem
    /\ UNCHANGED <<cfg, clock, final_payloads, run_pc, should_stop, found_urls,
                   saved, warnings, limiter, sem_waiters>>

\* session.get raised: a ClientError or a timeout is retried and counted on the
\* last attempt only; any other exception leaves the loop uncounted.
StdGetError(t, kind) ==
    /\ engine = "standard"
    /\ ~FirstPass
    /\ pc[t] = "get"
    /\ IF kind \in Transient /\ attempt[t] < StdMaxRetries
       THEN /\ StdIssue(t, stats, attempt[t] + 1)
            /\ UNCHANGED sem
       ELSE /\ StdLoopExit(t, IF kind \in Transient THEN Inc(stats, "errors") ELSE stats,
                           ErrorOutcome(kind), 0)
            /\ sem' = sem + 1
    /\ UNCHANGED <<cfg, clock, final_payloads, run_pc, should_stop, found_urls,
                   saved, warnings, limiter, sem_waiters>>

----------------------------------------------------------------------------
Next ==
    \/ CreateTasks
    \/ KeyboardInterrupt
    \/ Interrupt
    \/ GatherDone
    \/ \E t \in Tasks : BBStart(t)
    \/ \E t \in Tasks : BBLockAcquired(t)
    \/ \E t \in Tasks : BBSleepDone(t)
    \/ \E t \in Tasks, status \in StatusCodes : BBGetResponse(t, status)
    \/ \E t \in Tasks, kind \in ErrorKinds : BBGetError(t, kind)
    \/ \E t \in Tasks : BBReadDone(t)
    \/ \E t \in Tasks, kind \in ErrorKinds : BBReadError(t, kind)
    \/ \E t \in Tasks : StdStart(t)
    \/ \E t \in Tasks : StdSemAcquired(t)
    \/ \E t \in Tasks, status \in StatusCodes : StdGetResponse(t, status)
    \/ \E t \in Tasks, kind \in ErrorKinds : StdGetError(t, kind)

Spec == Init /\ [][Next]_vars

----------------------------------------------------------------------------
\* The general model with the -o option: no output file, one that can be
\* written, or a path that open() refuses.
OutputFiles == {"none", "writable", "unwritable"}

InitOutput ==
    /\ output_file \in OutputFiles
    /\ \/ /\ engine = "bugbounty"
          /\ stop_on_errors \in 1..MaxStopOnErrors
          /\ threads = 0
          /\ sem = 0
          /\ stats = BBStats0
       \/ /\ engine = "standard"
          /\ stop_on_errors = 0
          /\ threads \in 1..MaxThreads
          /\ sem = threads
          /\ stats = StdStats0
    /\ InitWords

SpecOutput == InitOutput /\ [][Next]_vars

----------------------------------------------------------------------------
\* The scenario of 10 candidates whose every request times out, with
\* stop_on_errors = 5, on the bug-bounty engine.
InitTimeouts ==
    /\ engine = "bugbounty"
    /\ npaths = 10
    /\ wordlist_data = [i \in 1..npaths |-> "w"]
    /\ extensions = <<>>
    /\ stop_on_errors = 5
    /\ target_valid = TRUE
    /\ output_file = "none"
    /\ threads = 0
    /\ sem = 0
    /\ stats = BBStats0
    /\ InitRun

NextTimeouts ==
    \/ CreateTasks
    \/ GatherDone
    \/ \E t \in Tasks : BBStart(t)
    \/ \E t \in Tasks : BBLockAcquired(t)
    \/ \E t \in Tasks : BBSleepDone(t)
    \/ \E t \in Tasks : BBGetError(t, "timeout")

SpecTimeouts == InitTimeouts /\ [][NextTimeouts]_vars

----------------------------------------------------------------------------
\* RateLimiter.wait() with its clock. The general model above keeps the clock
\* still and lets the test on time_since_last go either way (MaySleep); here time
\* passes in ticks and the callers arrive at any time.

\* What a step of the rate limiter leaves alone.
outside == <<cfg, run_pc, final_payloads, attempt, should_stop, stats, found_urls,
             saved, progress, warnings, semaphore, issued, ended>>

\* A limiter that never waits.
WaitTimeNone(time_since_last) == 0

\* wait_time, 0 when the caller does not sleep.
WaitTime(time_since_last) ==
    IF time_since_last < MinInterval THEN MinInterval - time_since_last ELSE 0

\* The end of wait(): stamp, count, release the lock.
LimAdmit(t) ==
    /\ last_request_time' = now
    /\ request_count' = request_count + 1
    /\ lock' = 0
    /\ pc' = [pc EXCEPT ![t] = "admitted"]

\* wait() once the lock is held.
LimLocked(t) ==
    LET wait_time == WaitTime(now - last_request_time) IN
    IF wait_time > 0
    THEN /\ lock' = t
         /\ wake' = now + wait_time
         /\ pc' = [pc EXCEPT ![t] = "sleeping"]
         /\ UNCHANGED <<last_request_time, request_count>>
    ELSE /\ LimAdmit(t)
         /\ UNCHANGED wake

\* A caller enters wait(): it takes the lock when it is free and nobody waits.
LimEnter(t) ==
    /\ pc[t] = "created"
    /\ IF lock = 0 /\ lock_waiters = <<>>
       THEN /\ LimLocked(t)
            /\ UNCHANGED lock_waiters
       ELSE /\ lock_waiters' = Append(lock_waiters, t)
            /\ pc' = [pc EXCEPT ![t] = "lock_wait"]
            /\ UNCHANGED <<lock, request_count, last_request_time, wake>>
    /\ UNCHANGED <<outside, now>>

\* The lock was released and this caller is the first waiter.
LimLockAcquired(t) ==
    /\ pc[t] = "lock_wait"
    /\ lock = 0
    /\ lock_waiters # <<>> /\ Head(lock_waiters) = t
    /\ lock_waiters' = Tail(lock_waiters)
    /\ LimLocked(t)
    /\ UNCHANGED <<outside, now>>

\* asyncio.sleep(wait_time) returns, no earlier than it is due.
LimSleepDone(t) ==
    /\ pc[t] = "sleeping"
    /\ now >= wake
    /\ LimAdmit(t)
    /\ UNCHANGED <<outside, now, wake, lock_waiters>>

Tick ==
    /\ now < MaxTime
    /\ now' = now + 1
    /\ UNCHANGED <<outside, pc, limiter, last_request_time, wake>>

InitLimiter ==
    /\ engine = "bugbounty"
    /\ npaths \in 1..MaxPaths
    /\ wordlist_data = [i \in 1..npaths |-> "w"]
    /\ extensions = <<>>
    /\ stop_on_errors = 1
    /\ target_valid = TRUE
    /\ output_file = "none"
    /\ threads = 0
    /\ sem = 0
    /\ stats = BBStats0
    /\ InitRun

NextLimiter ==
    \/ CreateTasks
    \/ Tick
    \/ \E t \in Tasks : LimEnter(t)
    \/ \E t \in Tasks : LimLockAcquired(t)
    \/ \E t \in Tasks : LimSleepDone(t)

SpecLimiter == InitLimiter /\ [][NextLimiter]_vars

----------------------------------------------------------------------------
\* A transport that answers by path: status 200 for admin, the status a path is
\* named after, and 404 for every other path.
Transport(path) ==
    CASE path = "admin" -> 200
      [] path = "s200" -> 200
      [] path = "s403" -> 403
      [] path = "s301" -> 301
      [] path = "s302" -> 302
      [] path = "s307" -> 307
      [] path = "s308" -> 308
      [] path = "s500" -> 500
      [] OTHER -> 404

\* The status the transport gives candidate t.
Answer(t) == Transport(final_payloads[t])

\* Either engine with one candidate per status, or with words [admin, backup]
\* and extensions [bak].
InitClassify ==
    /\ \/ /\ wordlist_data =
                <<"s200", "s403", "s301", "s302", "s307", "s308", "s404", "s500">>
          /\ extensions = <<>>
       \/ /\ wordlist_data = <<"admin", "backup">>
          /\ extensions = <<"bak">>
    /\ npaths = Len(Expand(wordlist_data, extensions))
    /\ target_valid = TRUE
    /\ output_file = "none"
    /\ \/ /\ engine = "bugbounty"
          /\ stop_on_errors \in 1..MaxStopOnErrors
          /\ threads = 0
          /\ sem = 0
          /\ stats = BBStats0
       \/ /\ engine = "standard"
          /\ stop_on_errors = 0
          /\ threads \in 1..MaxThreads
          /\ sem = threads
          /\ stats = StdStats0
    /\ InitRun

NextClassify ==
    \/ CreateTasks
    \/ GatherDone
    \/ \E t \in Tasks : BBStart(t)
    \/ \E t \in Tasks : BBLockAcquired(t)
    \/ \E t \in Tasks : BBSleepDone(t)
    \/ \E t \in Tasks : BBGetResponse(t, Answer(t))
    \/ \E t \in Tasks : BBReadDone(t)
    \/ \E t \in Tasks : StdStart(t)
    \/ \E t \in Tasks : StdSemAcquired(t)
    \/ \E t \in Tasks : StdGetResponse(t, Answer(t))

SpecClassify == InitClassify /\ [][NextClassify]_vars

----------------------------------------------------------------------------
\* The payload expansion on its own: every word list of up to MaxWords words
\* and every extension list of up to MaxExts extensions, repetitions included.
SeqsUpTo(S, n) == UNION {[1..k -> S] : k \in 0..n}

InitExpand ==
    /\ wordlist_data \in SeqsUpTo({"a", "b"}, MaxWords)
    /\ extensions \in SeqsUpTo({"x", "y"}, MaxExts)
    /\ npaths = Len(Expand(wordlist_data, extensions))
    /\ target_valid = TRUE
    /\ output_file = "none"
    /\ \/ /\ engine = "bugbounty"
          /\ stop_on_errors = 1
          /\ threads = 0
          /\ sem = 0
          /\ stats = BBStats0
       \/ /\ engine = "standard"
          /\ stop_on_errors = 0
          /\ threads = 1
          /\ sem = threads
          /\ stats = StdStats0
    /\ InitRun

SpecExpand == InitExpand /\ [][CreateTasks]_vars

----------------------------------------------------------------------------
\* The claims.

\* Candidates that have called session.get at least once: those inside the retry
\* loop and those whose scan_url ended anywhere but at the should_stop test.
Dispatched ==
    Cardinality({t \in Tasks : pc[t] \in {"get", "read"}})
        + ended["response"] + ended["transient_error"] + ended["fatal_abort"]

\* max_retries of the engine that is running.
MaxRetries == IF engine = "bugbounty" THEN BBMaxRetries ELSE StdMaxRetries

\* C1: in the bug-bounty engine, once should_stop is True no step issues a new
\* session.get, neither for a probe that was waiting in the rate limiter nor for
\* a retry attempt.
C1_NoRequestAfterStop ==
    [][(engine = "bugbounty" /\ should_stop) => issued' = issued]_vars

\* C2: in the bug-bounty engine the trip cannot be missed: a consecutive-error
\* counter that stands at or above stop_on_errors while should_stop is still
\* False does not drop back under the threshold without should_stop becoming True.
C2_ThresholdNeverMissed ==
    [][(engine = "bugbounty" /\ ~should_stop
            /\ stats["consecutive_errors"] >= stop_on_errors)
        => (should_stop' \/ stats'["consecutive_errors"] >= stop_on_errors)]_vars

\* C3: with 10 candidates that all time out and stop_on_errors = 5, should_stop is
\* True from the 5th consecutive timeout on and at most 5 candidates ever call
\* session.get.
C3_FiveOfTenSkipped ==
    /\ stats["consecutive_errors"] >= 5 => should_stop
    /\ Dispatched <= 5

\* C4: in the bug-bounty engine the circuit-breaker warning is printed at most
\* once in a run.
C4_WarningAtMostOnce == warnings <= 1

\* C5: in the bug-bounty engine should_stop starts False and no step of scan_url,
\* run or the interruption handler sets it back to False once it is True.
C5_StopIsTerminal ==
    /\ should_stop = FALSE
    /\ [][should_stop => should_stop']_vars

\* C5 witness: a bug-bounty run that tripped the breaker has ended, every probe
\* done, with the counter back under the threshold and should_stop still True.
C5_Witness ==
    /\ engine = "bugbounty"
    /\ run_pc = "summary"
    /\ should_stop
    /\ warnings > 0
    /\ stats["consecutive_errors"] < stop_on_errors
    /\ \A t \in Tasks : pc[t] = "done"

\* C6: at the end of a run of either engine stats['total'] is the number of
\* candidates that ended with an HTTP response of any status or with a transient
\* error.
C6_TotalCountsEveryOutcome ==
    run_pc = "summary" =>
        stats["total"] = ended["response"] + ended["transient_error"]

\* C7: in the bug-bounty engine a candidate whose response has been counted and
\* whose body is being read ends there: it records no error and is not counted or
\* requested a second time.
C7_OneOutcomePerCandidate ==
    [][engine = "bugbounty" =>
        \A t \in Tasks :
            (pc[t] = "read" /\ pc'[t] # "read") =>
                /\ pc'[t] = "done"
                /\ stats'["errors"] = stats["errors"]
                /\ stats'["total"] = stats["total"]]_vars

\* C8: in the bug-bounty engine the consecutive-error counter goes up only by
\* one and only in a step where one candidate ends in an error, and every counted
\* HTTP response resets it to 0.
C8_ConsecutiveCountsOutcomes ==
    [][engine = "bugbounty" =>
        /\ stats'["consecutive_errors"] > stats["consecutive_errors"] =>
              /\ stats'["consecutive_errors"] = stats["consecutive_errors"] + 1
              /\ ended'["transient_error"] + ended'["fatal_abort"]
                    = ended["transient_error"] + ended["fatal_abort"] + 1
        /\ stats'["total"] > stats["total"] => stats'["consecutive_errors"] = 0]_vars

\* C9: in both engines a candidate makes at most max_retries + 1 attempts, and a
\* further attempt starts only from a session.get that failed, never after an
\* attempt that obtained an HTTP response.
C9_RetryOnlyAfterFailure ==
    [][\A t \in Tasks :
        /\ attempt'[t] <= MaxRetries
        /\ attempt'[t] > attempt[t] => pc[t] = "get"]_vars

\* C10: at the end of a run of either engine in which no candidate was aborted by
\* an unexpected exception, stats['errors'] is the number of candidates that ended
\* in a transient error.
C10_ErrorsCountCandidates ==
    (run_pc = "summary" /\ ended["fatal_abort"] = 0) =>
        stats["errors"] = ended["transient_error"]

\* C11: in both engines an exception that is neither a timeout nor a ClientError
\* ends the candidate's retry loop at once, with no further session.get, and is
\* counted in stats['errors'] (and in consecutive_errors by the bug-bounty
\* engine), as an exhausted transient failure is.
C11_FatalAbortRecorded ==
    [][ended'["fatal_abort"] > ended["fatal_abort"] =>
        /\ issued' = issued
        /\ stats'["errors"] = stats["errors"] + 1
        /\ engine = "bugbounty" =>
              stats'["consecutive_errors"] = stats["consecutive_errors"] + 1]_vars

\* C12: RateLimiter.wait is a serialized critical section: at most one caller
\* is between reading last_request_time and stamping it, and it holds the lock;
\* request_count is the number of completed admissions; the k-th stamp is no
\* earlier than (k - 1) * min_interval after the start; and each stamp is at
\* least min_interval after the one before, however long the limiter was idle.
C12_LimiterSerialized ==
    /\ [](/\ Cardinality({t \in Tasks : pc[t] = "sleeping"}) <= 1
          /\ \A t \in Tasks : pc[t] = "sleeping" => lock = t
          /\ request_count = Cardinality({t \in Tasks : pc[t] = "admitted"})
          /\ request_count > 0 =>
                last_request_time >= Epoch + (request_count - 1) * MinInterval)
    /\ [][request_count' # request_count =>
            last_request_time' >= last_request_time + MinInterval]_vars

\* C12 witness: one caller was admitted, a second sleeps inside the lock and a
\* third waits for the lock, after the limiter sat idle for more than min_interval.
C12_Witness ==
    /\ request_count >= 1
    /\ \E t \in Tasks : pc[t] = "sleeping"
    /\ lock_waiters # <<>>
    /\ last_request_time >= Epoch + MinInterval + 1

\* Probes of the standard engine inside "async with self.semaphore": holding a
\* slot, suspended in session.get.
InsideSemaphore == {t \in Tasks : pc[t] = "get"}

\* C13: in the standard engine with threads = N at most N probes are inside the
\* semaphore-guarded section, and the free slots are N minus their number.
C13_AtMostNInside ==
    engine = "standard" =>
        /\ Cardinality(InsideSemaphore) <= threads
        /\ sem = threads - Cardinality(InsideSemaphore)

\* C13 witness: every slot is taken and a further probe waits for one.
C13_Witness ==
    /\ engine = "standard"
    /\ Cardinality(InsideSemaphore) = threads
    /\ sem_waiters # <<>>

\* C14: in both engines, in the state where run() calls print_summary no scan_url
\* task is pending or performing a request: every task that was created is done.
C14_SummaryAfterAllTasks ==
    run_pc = "summary" => \A t \in Tasks : pc[t] \in {"none", "done"}

\* The general model with its scheduling: the event loop runs every task that
\* can take a step, responses and timeouts arrive, and run() goes on when gather
\* returns; an interruption may or may not come.
SpecLive == Init /\ [][Next]_vars /\ WF_vars(Next)

\* C15: in both engines every run, interrupted or not, reaches a state in which
\* print_summary has been executed.
C15_SummaryAlwaysPrinted == <>(run_pc \in {"summary", "main_summary"})

\* C16: in both engines no step of another probe falls between a response's
\* increment of stats['total'] and its bucket increment and found_urls append:
\* while a probe has counted its response and not yet its bucket, stats and
\* found_urls do not change.
C16_ClassificationAtomic ==
    [][\A t \in Tasks :
        (pc[t] = "read" /\ pc'[t] = "read") =>
            (stats' = stats /\ found_urls' = found_urls)]_vars

\* The statuses the claim classifies as a Hit, and the candidates answered with
\* a status of a given set.
HitStatuses == {200, 403, 301, 302, 307, 308}
AnsweredWith(statuses) == {t \in Tasks : Answer(t) \in statuses}

\* C17: at the end of a run of either engine in which every candidate got a
\* response, found_urls holds each candidate answered 200, 403, 301, 302, 307 or
\* 308 once and nothing else, the buckets 200, 403, 302 (all redirects) and 404
\* count their statuses, and total counts every response; for words [admin,
\* backup] and extensions [bak], with 200 for admin and 404 otherwise,
\* found_urls is [admin] and stats are total 4, 200: 1, 404: 3.
C17_Classification ==
    run_pc = "summary" =>
        /\ {found_urls[i] : i \in DOMAIN found_urls} = AnsweredWith(HitStatuses)
        /\ Len(found_urls) = Cardinality(AnsweredWith(HitStatuses))
        /\ stats["total"] = npaths
        /\ stats["200"] = Cardinality(AnsweredWith({200}))
        /\ stats["403"] = Cardinality(AnsweredWith({403}))
        /\ stats["302"] = Cardinality(AnsweredWith({301, 302, 307, 308}))
        /\ "404" \in DOMAIN stats
        /\ stats["404"] = Cardinality(AnsweredWith({404}))
        /\ wordlist_data = <<"admin", "backup">> =>
              /\ [i \in DOMAIN found_urls |-> final_payloads[found_urls[i]]] = <<"admin">>
              /\ stats["total"] = 4 /\ stats["200"] = 1 /\ stats["404"] = 3

\* The sequence the expansion is to give: entry i belongs to word number
\* (i - 1) \div (1 + number of extensions) + 1, bare when it is the first of its
\* group and followed by "." and the extension of its rank otherwise.
Expected(words, exts) ==
    [i \in 1..(Len(words) * (1 + Len(exts))) |->
        LET word == words[((i - 1) \div (1 + Len(exts))) + 1]
            rank == (i - 1) % (1 + Len(exts))
        IN  IF rank = 0 THEN word ELSE word \o "." \o exts[rank]]

\* C18: in both engines, once a probe task exists final_payloads is the full
\* expansion: each word in input order followed by word.ext for each extension
\* in the given order, duplicates kept, len(words) * (1 + len(extensions)) long.
C18_PayloadExpansion ==
    /\ run_pc = "create" => \A t \in Tasks : pc[t] = "none"
    /\ (\E t \in Tasks : pc[t] # "none") =>
          /\ final_payloads = Expected(wordlist_data, extensions)
          /\ Len(final_payloads) = Len(wordlist_data) * (1 + Len(extensions))

\* C18 witness: the tasks of a list with a repeated word and two extensions
\* were created.
C18_Witness ==
    /\ run_pc = "gather"
    /\ wordlist_data = <<"a", "b", "a">>
    /\ extensions = <<"y", "x">>
    /\ Len(final_payloads) = 9
    /\ \A t \in Tasks : pc[t] = "created"

\* Candidates whose scan_url has ended, in whatever way.
Ended ==
    ended["response"] + ended["transient_error"] + ended["fatal_abort"]
        + ended["skipped"]

\* C19: in both engines a failed attempt, whatever the fault, neither ends run()
\* nor cancels a task; a probe is skipped only when should_stop is True; a
\* request in flight ends by itself unless the user interrupts the run; and
\* when gather returns every candidate has been probed or skipped and counted
\* as processed.
C19_FailureNeverEndsRun ==
    /\ [][(\/ stats'["errors"] > stats["errors"]
            \/ ended'["transient_error"] > ended["transient_error"]
            \/ ended'["fatal_abort"] > ended["fatal_abort"])
          => (run_pc' = run_pc /\ \A t \in Tasks : pc'[t] # "cancelled")]_vars
    /\ [][ended'["skipped"] > ended["skipped"] => should_stop]_vars
    /\ [][\A t \in Tasks :
            (pc[t] \in {"get", "read"} /\ pc'[t] \notin {"get", "read", "done"})
                => run_pc' \in {"interrupted", "main_summary"}]_vars
    /\ [][(run_pc = "gather" /\ run_pc' = "summary") =>
            /\ \A t \in Tasks : pc[t] = "done"
            /\ Ended = npaths
            /\ progress = npaths]_vars

\* C19 witness: a run in which one candidate ended in a transient error, one in
\* another exception and one with a response went through gather to its summary.
C19_Witness ==
    /\ run_pc = "summary"
    /\ ended["transient_error"] > 0
    /\ ended["fatal_abort"] > 0
    /\ ended["response"] > 0
    /\ progress = npaths

\* C20: in the bug-bounty engine a probe that begins while should_stop is True
\* ends in that step without entering the rate limiter, issues no request,
\* changes nothing in stats or found_urls and advances the progress count by
\* exactly one.
C20_SkippedProbeIsNoOp ==
    [][\A t \in Tasks :
        (/\ engine = "bugbounty"
         /\ should_stop
         /\ pc[t] = "created"
         /\ pc'[t] \notin {"created", "cancelled"})
        => /\ pc'[t] = "done"
           /\ stats' = stats
           /\ found_urls' = found_urls
           /\ limiter' = limiter
           /\ last_request_time' = last_request_time
           /\ issued' = issued
           /\ progress' = progress + 1]_vars

\* C20 witness: the breaker is tripped, a probe was skipped and counted as
\* processed, and a later probe is still to begin.
C20_Witness ==
    /\ engine = "bugbounty"
    /\ run_pc = "gather"
    /\ should_stop
    /\ ended["skipped"] > 0
    /\ \E t \in Tasks : pc[t] = "created"

\* C21: in the bug-bounty engine RateLimiter.lock is never held by a task that is
\* suspended in session.get or response.read (its holder, if any, sleeps inside
\* wait), and every probe has completed RateLimiter.wait before its first
\* session.get: the step that sends a probe's first request is the step in
\* which its wait() returns.
C21_LockNotHeldDuringIO ==
    /\ [](engine = "bugbounty" =>
            /\ \A t \in Tasks : pc[t] \in {"get", "read"} => lock # t
            /\ lock # 0 => pc[lock] = "sleeping"
            /\ Dispatched <= request_count)
    /\ [][(/\ engine = "bugbounty"
           /\ issued' > issued
           /\ \E t \in Tasks :
                 pc[t] \in {"created", "lock_wait", "sleeping"} /\ pc'[t] # pc[t])
          => request_count' = request_count + 1]_vars

\* C21 witness: one probe is suspended in session.get while a second sleeps
\* inside the rate limiter, holding the lock, and a third waits for the lock.
C21_Witness ==
    /\ engine = "bugbounty"
    /\ \E t \in Tasks : pc[t] = "get"
    /\ \E t \in Tasks : pc[t] = "sleeping" /\ lock = t
    /\ lock_waiters # <<>>

\* C22: in both engines, with an output file configured, the file is
\* append-only and written as the hits occur: in every state, after an
\* interruption too, the lines the run has written are the entries of found_urls
\* in the same order, a step only ever adds one line at the end, and the step
\* that records a hit writes its line.
C22_FileMirrorsFoundUrls ==
    /\ [](output_file # "none" => saved = found_urls)
    /\ [][output_file # "none" =>
            /\ saved' = saved \/ \E t \in Tasks : saved' = Append(saved, t)
            /\ found_urls' # found_urls =>
                  saved' = Append(saved, found_urls'[Len(found_urls')])]_vars

\* The sum of the hit buckets, and of all status buckets of the engine.
HitBuckets == stats["200"] + stats["403"] + stats["302"]
StatusBuckets ==
    HitBuckets + (IF engine = "bugbounty" THEN stats["404"] ELSE 0)

\* C23: in both engines, in every state another task can observe, found_urls
\* has as many entries as the buckets 200, 403 and 302 count together, the
\* status buckets (404 included in the bug-bounty engine) never exceed
\* stats['total'], and found_urls changes only by one entry added at its end.
C23_FoundMatchesBuckets ==
    /\ [](/\ Len(found_urls) = HitBuckets
          /\ StatusBuckets <= stats["total"])
    /\ [][\/ found_urls' = found_urls
          \/ \E t \in Tasks : found_urls' = Append(found_urls, t)]_vars

\* C23 witness: in the bug-bounty engine one hit and one 404 are recorded while
\* a third response is counted in total and waits for its body, its bucket
\* still uncounted.
C23_Witness ==
    /\ engine = "bugbounty"
    /\ \E t \in Tasks : pc[t] = "read"
    /\ Len(found_urls) = 1
    /\ stats["404"] = 1
    /\ stats["total"] = 3

\* The general model without interruption, with its scheduling: the event loop
\* runs every task that can take a step, and every request is answered or fails.
NextUninterrupted ==
    \/ CreateTasks
    \/ GatherDone
    \/ \E t \in Tasks : BBStart(t)
    \/ \E t \in Tasks : BBLockAcquired(t)
    \/ \E t \in Tasks : BBSleepDone(t)
    \/ \E t \in Tasks, status \in StatusCodes : BBGetResponse(t, status)
    \/ \E t \in Tasks, kind \in ErrorKinds : BBGetError(t, kind)
    \/ \E t \in Tasks : BBReadDone(t)
    \/ \E t \in Tasks, kind \in ErrorKinds : BBReadError(t, kind)
    \/ \E t \in Tasks : StdStart(t)
    \/ \E t \in Tasks : StdSemAcquired(t)
    \/ \E t \in Tasks, status \in StatusCodes : StdGetResponse(t, status)
    \/ \E t \in Tasks, kind \in ErrorKinds : StdGetError(t, kind)

SpecUninterrupted ==
    InitOutput /\ [][NextUninterrupted]_vars /\ WF_vars(NextUninterrupted)

\* Where a probe task that has begun and not finished can be.
Pending == {"lock_wait", "sleeping", "sem_wait", "get", "read"}

\* C24: in both engines, with every request answered or failing and a fair
\* event loop, every run ends: run() leaves gather, a task that waits for the
\* rate limiter's lock, for the semaphore or for the network gets on and
\* finishes, and when run() reaches the summary the progress count is the number
\* of payloads.
C24_EveryRunTerminates ==
    /\ [](run_pc = "summary" => progress = npaths)
    /\ <>(run_pc \notin {"create", "gather"})
    /\ \A t \in 1..MaxPaths :
          (t \in Tasks /\ pc[t] \in Pending)
              ~> (t \in Tasks /\ pc[t] \in {"done", "cancelled"})

\* C25: in the standard engine a probe gives its semaphore slot back on every
\* way out of the guarded section: the step in which a probe inside the section
\* ends, with a response, with its retries exhausted or with another exception,
\* frees one slot; a probe that never suspends inside the section leaves the
\* free slots as they were; no step takes more than one slot; and once every
\* task has finished the free slots are the configured threads again and
\* nobody waits for one.
C25_SlotReleasedOnEveryExit ==
    /\ [](engine = "standard" =>
            /\ sem \in 0..threads
            /\ (\A t \in Tasks : pc[t] \in {"none", "done", "cancelled"}) =>
                  (sem = threads /\ sem_waiters = <<>>))
    /\ [][engine = "standard" =>
            /\ sem' >= sem - 1
            /\ \A t \in Tasks :
                  /\ (pc[t] = "get" /\ pc'[t] = "done") => sem' = sem + 1
                  /\ (pc[t] \in {"created", "sem_wait"} /\ pc'[t] = "done") =>
                        sem' = sem]_vars

\* C25 witness: a run of the standard engine has ended in which one probe got a
\* response, one exhausted its retries and one was ended by another exception,
\* and every slot is free again.
C25_Witness ==
    /\ engine = "standard"
    /\ run_pc = "summary"
    /\ ended["response"] > 0
    /\ ended["transient_error"] > 0
    /\ ended["fatal_abort"] > 0
    /\ sem = threads

====
